---------------------------- MODULE Spec2Model ----------------------------
(***************************************************************************)
(* A state-machine model of the Lox scanner of src/src/scanner.js          *)
(* (class Scanner, class Token) and of the error reporter of               *)
(* src/src/lox-error.js.                                                   *)
(*                                                                         *)
(* The source text is the array of one-character strings the constructor   *)
(* builds; start and current are the 0-based indexes of the code, so the   *)
(* character the code reads as source[i] is source[i + 1] here.            *)
(* Every loop of the scanner (scan_tokens, the comment loop, the string    *)
(* loop, the number loop) advances one iteration per step; pc is the       *)
(* position of the control flow.                                           *)
(***************************************************************************)
EXTENDS Integers, Sequences, FiniteSets, TLC

VARIABLES
    source,     \* Scanner.#source : the characters to scan
    tokens,     \* Scanner.#tokens : the tokens scanned so far
    start,      \* Scanner.#start  : 0-based index of the first char of the token
    current,    \* Scanner.#current: 0-based index of the next unread char
    line,       \* Scanner.#line
    errors,     \* the calls of lox_error(line, message) made so far, in order
    pc,         \* control position: "scan", "comment", "string", "number",
                \* "number_body", "done"
    state,      \* the local `state` of Scanner.#number
    path,       \* every value assigned to `state` in the current #number call
    spans,      \* <<#start, #current>> at each call of #add_token, in order
    listeners,  \* the listeners of the "lox-error" event, in subscription order
    rejected,   \* the promises of lox_error that were rejected
    runs,       \* what the earlier Scanner instances of the process returned
    dpc,        \* position of the caller: "none" when the Scanner is used
                \* alone, "client", or the position in main()
    argc,       \* argv.length of main()
    rtn,        \* the local `rtn` of main()
    exit_code   \* the argument of process.exit once dpc = "exited"

\* what no method of Scanner writes
envvars == <<listeners, runs, dpc, argc, exit_code>>

vars ==
    <<source, tokens, start, current, line, errors, pc, state, path, spans,
      rejected, rtn, envvars>>

-----------------------------------------------------------------------------
(* Bounds of the model *)

\* longest source over the whole alphabet
MaxLen == 2

\* longest source over the core alphabet
MaxCoreLen == 4

\* longest digit run in a source of the number family
MaxDigits == 2

\* longest source of the specification with fairness
MaxLiveLen == 3

-----------------------------------------------------------------------------
(* Token.token_types *)

LEFT_PAREN == 0
RIGHT_PAREN == 1
LEFT_BRACE == 2
RIGHT_BRACE == 3
COMMA == 4
DOT == 5
MINUS == 6
PLUS == 7
SEMICOLON == 8
STAR == 10
BANG == 11
BANG_EQUAL == 12
EQUAL == 13
GREATER == 15
GREATER_EQUAL == 16
LESS == 17
LESS_EQUAL == 18
IDENTIFIER == 19
\* token_types.STRING (STRING is a reserved word of TLA+)
T_STRING == 20
NUMBER == 21
EQUAL_EQUAL == 39
\* token_types.IF (IF is a reserved word of TLA+)
T_IF == 28

(* state_type of Scanner.#number *)

state_before_sign == 0
state_before_decimal == 1
state_after_decimal == 2
state_before_exp_sign == 3
state_in_exp == 4
state_at_end == 5
state_failure == 6

-----------------------------------------------------------------------------
(* Characters *)

QUOTE == "\""

NEWLINE == "\n"

DigitChars == {"0", "1", "2", "3", "4", "5", "6", "7", "8", "9"}

\* is_digit(ch): ch >= '0' && ch <= '9' on a one-character string
is_digit(ch) == ch \in DigitChars

SingleChars == {"(", ")", "{", "}", ",", ".", "-", "+", ";", "*"}

CompareChars == {"!", "=", "<", ">"}

Whitespace == {"\r", " ", "\t"}

-----------------------------------------------------------------------------
(* The sources scanned *)

SeqsUpTo(S, n) == UNION {[1..k -> S] : k \in 0..n}

Alphabet ==
    SingleChars \cup CompareChars \cup Whitespace
        \cup {"/", NEWLINE, QUOTE, "1", "5", "e", "E", "x", "_", "#", "@"}

CoreAlphabet == {"1", "5", ".", "e", "-", " ", NEWLINE, QUOTE, "/", "x"}

FamilyDigits == {"1", "5"}

DigitRuns == UNION {[1..k -> FamilyDigits] : k \in 1..MaxDigits}

\* digits '.' digits ('e'|'E') optional-sign digits
NumberSources ==
    {i \o <<".">> \o f \o <<e>> \o s \o x :
        i \in DigitRuns, f \in DigitRuns, e \in {"e", "E"},
        s \in {<<>>, <<"+">>, <<"-">>}, x \in DigitRuns}

Ex_number == <<"1", ".", "5", "e", "-", "3">>

Ex_comment ==
    <<"/", "/", " ", "c", "o", "m", "m", "e", "n", "t", NEWLINE, "1", "2", "3">>

Ex_string ==
    <<QUOTE, "h", "e", "l", "l", "o", NEWLINE, "w", "o", "r", "l", "d", QUOTE>>

Ex_keyword == <<"i", "f", " ", "x">>

Examples == {Ex_number, Ex_comment, Ex_string, Ex_keyword}

Sources ==
    SeqsUpTo(Alphabet, MaxLen) \cup SeqsUpTo(CoreAlphabet, MaxCoreLen)
        \cup NumberSources \cup Examples

LiveSources == SeqsUpTo(CoreAlphabet, MaxLiveLen)

-----------------------------------------------------------------------------
(* Token and literals *)

\* the default literal `{}` of #add_token
NoLiteral == [kind |-> "object"]

StringLiteral(value) == [kind |-> "string", value |-> value]

\* a finite decimal mant * 10^exp, mant without a trailing zero
NumberLiteral(mant, exp) == [kind |-> "number", mant |-> mant, exp |-> exp]

NaNLiteral == [kind |-> "NaN"]

Token(token_type, lexeme, literal, ln) ==
    [token_type |-> token_type, lexeme |-> lexeme, literal |-> literal, line |-> ln]

-----------------------------------------------------------------------------
(* Number.parseFloat on a string that begins with a digit, as an exact       *)
(* decimal: the longest prefix  digits [. digits*] [(e|E) [+|-] digits]      *)

DigitValue(ch) ==
    CASE ch = "0" -> 0 [] ch = "1" -> 1 [] ch = "2" -> 2 [] ch = "3" -> 3
      [] ch = "4" -> 4 [] ch = "5" -> 5 [] ch = "6" -> 6 [] ch = "7" -> 7
      [] ch = "8" -> 8 [] ch = "9" -> 9

RECURSIVE DigitsValue(_)
DigitsValue(s) ==
    IF s = <<>> THEN 0
    ELSE 10 * DigitsValue(SubSeq(s, 1, Len(s) - 1)) + DigitValue(s[Len(s)])

\* the number of digits of s from position i (1-based) on
RECURSIVE DigitRun(_, _)
DigitRun(s, i) ==
    IF i <= Len(s) /\ is_digit(s[i]) THEN 1 + DigitRun(s, i + 1) ELSE 0

RECURSIVE Normalise(_, _)
Normalise(mant, exp) ==
    IF mant = 0 THEN NumberLiteral(0, 0)
    ELSE IF mant % 10 = 0 THEN Normalise(mant \div 10, exp + 1)
    ELSE NumberLiteral(mant, exp)

parseFloat(s) ==
    LET i == DigitRun(s, 1)
        hasPoint == i + 1 <= Len(s) /\ s[i + 1] = "."
        f == IF hasPoint THEN DigitRun(s, i + 2) ELSE 0
        p == IF hasPoint THEN i + 1 + f ELSE i
        hasE == p + 1 <= Len(s) /\ s[p + 1] \in {"e", "E"}
        hasSign == hasE /\ p + 2 <= Len(s) /\ s[p + 2] \in {"+", "-"}
        q == IF hasSign THEN p + 3 ELSE p + 2
        x == IF hasE THEN DigitRun(s, q) ELSE 0
        expo == IF x = 0 THEN 0
                ELSE IF hasSign /\ s[p + 2] = "-"
                     THEN 0 - DigitsValue(SubSeq(s, q, q + x - 1))
                     ELSE DigitsValue(SubSeq(s, q, q + x - 1))
        mant == DigitsValue(SubSeq(s, 1, i) \o SubSeq(s, i + 2, i + 1 + f))
    IN  IF i = 0 THEN NaNLiteral ELSE Normalise(mant, expo - f)

-----------------------------------------------------------------------------
(* Scanner primitives; cur is the value of #current they are called with *)

Min(a, b) == IF a <= b THEN a ELSE b

\* is_at_end()
AtEnd(cur) == cur >= Len(source)

is_at_end == AtEnd(current)

\* #peek()
Peek(cur) == IF ~AtEnd(cur) THEN source[cur + 1] ELSE ""

\* a match that compares the character #advance has just returned
MatchConsumed(cur, expected) == ~AtEnd(cur) /\ source[cur] = expected

\* #match(expected): the value returned; #current is incremented when TRUE
Match(cur, expected) == ~AtEnd(cur) /\ source[cur + 1] = expected

\* this.#source.slice(from, to).join("")
Slice(from, to) == SubSeq(source, from + 1, Min(to, Len(source)))

\* #add_token(type, literal) called with #start = st, #current = cur, #line = ln
add_token(toks, st, cur, ln, type, literal) ==
    Append(toks, Token(type, Slice(st, cur), literal, ln))

\* lox_error(line, message): the emit of the "lox-error" event
lox_error(errs, ln, message) == Append(errs, [line |-> ln, message |-> message])

\* the listeners emitter.emit calls: in order, up to the first that throws
Called(ls) ==
    LET throwers == {i \in 1..Len(ls) : ls[i] = "throws"}
    IN  IF throwers = {} THEN Len(ls)
        ELSE CHOOSE i \in throwers : \A j \in throwers : i <= j

\* emitter.emit throws what a listener throws
EmitThrows(ls) == \E i \in 1..Len(ls) : ls[i] = "throws"

\* a lox_error that is not async: what emit throws reaches the caller
LoxErrorThrowsSync(ls) == EmitThrows(ls)

\* whether the call lox_error(...) throws: it is an async function, so what
\* emit throws rejects the promise it returns and nothing reaches the caller
LoxErrorThrows(ls) == FALSE

\* where #scan_token goes on after a call of lox_error
AfterReport == IF LoxErrorThrows(listeners) THEN "aborted" ELSE "scan"

\* the listeners' part of a step: the listener of main() sets rtn = 1
Notify ==
    IF errors' # errors THEN
        /\ rtn' = IF \E i \in 1..Called(listeners) : listeners[i] = "main"
                  THEN 1 ELSE rtn
        /\ rejected' = IF EmitThrows(listeners) /\ ~LoxErrorThrows(listeners)
                       THEN rejected + 1 ELSE rejected
    ELSE UNCHANGED <<rtn, rejected>>

\* the record of a call of #add_token
Emitted ==
    spans' = IF tokens' # tokens THEN Append(spans, <<start', current'>>) ELSE spans

\* scan_tokens: this.#start = this.#current, kept from the last token
TokenStartKept(cur) == start

\* scan_tokens: this.#start = this.#current
TokenStart(cur) == cur

\* the message with a closing quote
MsgUnexpectedQuoted(ch) == <<"Unexpected character '", ch, "'">>

MsgUnexpected(ch) == <<"Unexpected character '", ch>>

MsgUnterminated == <<"unterminated string.">>

MsgInvalidNumber == <<"invalid number format">>

-----------------------------------------------------------------------------
(* #scan_token: the switch *)

SingleCharType(ch) ==
    CASE ch = "(" -> LEFT_PAREN [] ch = ")" -> RIGHT_PAREN
      [] ch = "{" -> LEFT_BRACE [] ch = "}" -> RIGHT_BRACE
      [] ch = "," -> COMMA [] ch = "." -> DOT
      [] ch = "-" -> MINUS [] ch = "+" -> PLUS
      [] ch = ";" -> SEMICOLON [] ch = "*" -> STAR

CompareType(ch, matched) ==
    CASE ch = "!" -> IF matched THEN BANG_EQUAL ELSE BANG
      [] ch = "=" -> IF matched THEN EQUAL_EQUAL ELSE EQUAL
      [] ch = "<" -> IF matched THEN LESS_EQUAL ELSE LESS
      [] ch = ">" -> IF matched THEN GREATER_EQUAL ELSE GREATER

\* a comment loop that stops at the end of input only
InCommentToEnd(cur) == ~AtEnd(cur)

\* what the comment loop's condition says with #current = cur
InComment(cur) == Peek(cur) # NEWLINE /\ ~AtEnd(cur)

\* what the string loop's condition says with #current = cur
InString(cur) == ~AtEnd(cur) /\ Peek(cur) # QUOTE

\* a test that the loop consumed a character after the opening quote
StringFoundStrict(st, cur) == cur > st + 1

\* the test after the string loop
StringFound(st, cur) == cur > st

\* one iteration of scan_tokens up to the end of the switch, or up to the
\* loop a case of the switch enters
ScanToken ==
    /\ pc = "scan"
    /\ ~is_at_end
    /\ LET ch == source[current + 1]
           c1 == current + 1
       IN  /\ start' = TokenStart(current)
           /\ IF ch \in SingleChars THEN
                 /\ tokens' = add_token(tokens, current, c1, line,
                                        SingleCharType(ch), NoLiteral)
                 /\ current' = c1
                 /\ pc' = "scan"
                 /\ UNCHANGED <<line, errors, state, path>>
              ELSE IF ch \in CompareChars THEN
                 LET m == Match(c1, "=")
                     c2 == IF m THEN c1 + 1 ELSE c1
                 IN  /\ tokens' = add_token(tokens, current, c2, line,
                                            CompareType(ch, m), NoLiteral)
                     /\ current' = c2
                     /\ pc' = "scan"
                     /\ UNCHANGED <<line, errors, state, path>>
              ELSE IF ch = "/" THEN
                 /\ current' = IF Match(c1, "/") THEN c1 + 1 ELSE c1
                 /\ pc' = IF Match(c1, "/") THEN "comment" ELSE "scan"
                 /\ UNCHANGED <<tokens, line, errors, state, path>>
              ELSE IF ch \in Whitespace THEN
                 /\ current' = c1
                 /\ pc' = "scan"
                 /\ UNCHANGED <<tokens, line, errors, state, path>>
              ELSE IF ch = NEWLINE THEN
                 /\ current' = c1
                 /\ line' = line + 1
                 /\ pc' = "scan"
                 /\ UNCHANGED <<tokens, errors, state, path>>
              ELSE IF ch = QUOTE THEN
                 /\ current' = c1
                 /\ pc' = "string"
                 /\ UNCHANGED <<tokens, line, errors, state, path>>
              ELSE IF is_digit(ch) THEN
                 /\ current' = c1
                 /\ pc' = "number"
                 /\ state' = state_before_sign
                 /\ path' = <<state_before_sign>>
                 /\ UNCHANGED <<tokens, line, errors>>
              ELSE
                 /\ current' = c1
                 /\ errors' = lox_error(errors, line, MsgUnexpected(ch))
                 /\ pc' = AfterReport
                 /\ UNCHANGED <<tokens, line, state, path>>
    /\ Emitted
    /\ Notify
    /\ UNCHANGED <<source, envvars>>

\* scan_tokens: the loop condition fails and the tokens are returned
Return ==
    /\ pc = "scan"
    /\ is_at_end
    /\ pc' = "done"
    /\ UNCHANGED <<source, tokens, start, current, line, errors, state, path>>
    /\ UNCHANGED <<spans, rejected, rtn, envvars>>

\* one iteration of the comment loop
CommentStep ==
    /\ pc = "comment"
    /\ InComment(current)
    /\ current' = current + 1
    /\ UNCHANGED <<source, tokens, start, line, errors, pc, state, path>>
    /\ UNCHANGED <<spans, rejected, rtn, envvars>>

\* the comment loop ends
CommentEnd ==
    /\ pc = "comment"
    /\ ~InComment(current)
    /\ pc' = "scan"
    /\ UNCHANGED <<source, tokens, start, current, line, errors, state, path>>
    /\ UNCHANGED <<spans, rejected, rtn, envvars>>

-----------------------------------------------------------------------------
(* #string *)

\* a string loop that does not count lines
StringLineKept(ln, ch) == ln

\* the string loop's line count, on the peeked character ch
StringLine(ln, ch) == IF ch = NEWLINE THEN ln + 1 ELSE ln

\* one iteration of the string loop
StringStep ==
    /\ pc = "string"
    /\ InString(current)
    /\ line' = StringLine(line, Peek(current))
    /\ current' = current + 1
    /\ UNCHANGED <<source, tokens, start, errors, pc, state, path>>
    /\ UNCHANGED <<spans, rejected, rtn, envvars>>

\* the string loop ends: the token or the report
StringEnd ==
    /\ pc = "string"
    /\ ~InString(current)
    /\ IF StringFound(start, current) THEN
          /\ current' = current + 1
          /\ tokens' = add_token(tokens, start, current + 1, line, T_STRING,
                                 StringLiteral(Slice(start + 1, current)))
          /\ UNCHANGED errors
       ELSE
          /\ errors' = lox_error(errors, line, MsgUnterminated)
          /\ UNCHANGED <<tokens, current>>
    /\ pc' = IF errors' # errors THEN AfterReport ELSE "scan"
    /\ UNCHANGED <<source, start, line, state, path, envvars>>
    /\ Emitted
    /\ Notify

-----------------------------------------------------------------------------
(* #number *)

\* the number loop's condition
InNumber(cur, st) == ~AtEnd(cur) /\ st # state_at_end

\* the branch the loop body takes in state st on the peeked character ch:
\* the state it assigns (assign FALSE: none), whether it calls #advance, and
\* whether it then tests is_at_end to force state_at_end
Branch(st, assign, advance, check) ==
    [state |-> st, assign |-> assign, advance |-> advance, check |-> check]

\* state_before_sign
BeforeSign(ch) ==
    IF ch = "+" \/ ch = "-" THEN Branch(state_before_decimal, TRUE, TRUE, FALSE)
    ELSE IF is_digit(ch) THEN Branch(state_before_decimal, TRUE, TRUE, TRUE)
    ELSE IF ch = "." THEN Branch(state_after_decimal, TRUE, TRUE, TRUE)
    ELSE Branch(state_failure, TRUE, FALSE, FALSE)

\* state_before_decimal without the is_at_end test after a digit
BeforeDecimalUnchecked(ch) ==
    IF is_digit(ch) THEN Branch(state_before_decimal, FALSE, TRUE, FALSE)
    ELSE IF ch = "." THEN Branch(state_after_decimal, TRUE, TRUE, TRUE)
    ELSE Branch(state_at_end, TRUE, FALSE, FALSE)

\* state_before_decimal
BeforeDecimal(ch) ==
    IF is_digit(ch) THEN Branch(state_before_decimal, FALSE, TRUE, TRUE)
    ELSE IF ch = "." THEN Branch(state_after_decimal, TRUE, TRUE, TRUE)
    ELSE Branch(state_at_end, TRUE, FALSE, FALSE)

\* state_after_decimal
AfterDecimal(ch) ==
    IF is_digit(ch) THEN Branch(state_after_decimal, FALSE, TRUE, TRUE)
    ELSE IF ch = "e" \/ ch = "E" THEN Branch(state_before_exp_sign, TRUE, TRUE, TRUE)
    ELSE Branch(state_at_end, TRUE, FALSE, FALSE)

\* an exponent that takes a digit only, no sign
BeforeExpSignUnsigned(ch) ==
    IF is_digit(ch)
    THEN Branch(state_in_exp, TRUE, TRUE, TRUE)
    ELSE Branch(state_at_end, TRUE, FALSE, FALSE)

\* state_before_exp_sign
BeforeExpSign(ch) ==
    IF (ch = "-" \/ ch = "+") \/ is_digit(ch)
    THEN Branch(state_in_exp, TRUE, TRUE, TRUE)
    ELSE Branch(state_at_end, TRUE, FALSE, FALSE)

\* state_in_exp
InExp(ch) ==
    IF is_digit(ch) THEN Branch(state_in_exp, FALSE, TRUE, TRUE)
    ELSE Branch(state_at_end, TRUE, FALSE, FALSE)

\* the if / else-if chain over `state`; no branch is written for state_failure
NumberBranch(st, ch) ==
    IF st = state_before_sign THEN BeforeSign(ch)
    ELSE IF st = state_before_decimal THEN BeforeDecimal(ch)
    ELSE IF st = state_after_decimal THEN AfterDecimal(ch)
    ELSE IF st = state_before_exp_sign THEN BeforeExpSign(ch)
    ELSE IF st = state_in_exp THEN InExp(ch)
    ELSE Branch(st, FALSE, FALSE, FALSE)

\* the number loop's condition holds: enter the body
NumberTest ==
    /\ pc = "number"
    /\ InNumber(current, state)
    /\ pc' = "number_body"
    /\ UNCHANGED <<source, tokens, start, current, line, errors, state, path>>
    /\ UNCHANGED <<spans, rejected, rtn, envvars>>

\* the body of the number loop
NumberBody ==
    /\ pc = "number_body"
    /\ LET b == NumberBranch(state, Peek(current))
           c1 == IF b.advance THEN current + 1 ELSE current
           forced == b.check /\ AtEnd(c1)
       IN  /\ current' = c1
           /\ state' = IF forced THEN state_at_end ELSE b.state
           /\ path' = path \o (IF b.assign THEN <<b.state>> ELSE <<>>)
                           \o (IF forced THEN <<state_at_end>> ELSE <<>>)
    /\ pc' = "number"
    /\ UNCHANGED <<source, tokens, start, line, errors>>
    /\ UNCHANGED <<spans, rejected, rtn, envvars>>

\* the number loop ends: the token or the report
NumberEnd ==
    /\ pc = "number"
    /\ ~InNumber(current, state)
    /\ IF state = state_at_end THEN
          /\ tokens' = add_token(tokens, start, current, line, NUMBER,
                                 parseFloat(Slice(start, current)))
          /\ UNCHANGED errors
       ELSE
          /\ errors' = lox_error(errors, line, MsgInvalidNumber)
          /\ UNCHANGED tokens
    /\ pc' = IF errors' # errors THEN AfterReport ELSE "scan"
    /\ UNCHANGED <<source, start, current, line, state, path, envvars>>
    /\ Emitted
    /\ Notify

-----------------------------------------------------------------------------
(* The specifications *)

InitScanner ==
    /\ tokens = <<>>
    /\ start = 0
    /\ current = 0
    /\ line = 1
    /\ errors = <<>>
    /\ pc = "scan"
    /\ state = state_before_sign
    /\ path = <<>>
    /\ spans = <<>>

\* the Scanner is used alone: nobody has subscribed and main() does not run
InitAlone ==
    /\ listeners = <<>>
    /\ rejected = 0
    /\ runs = <<>>
    /\ dpc = "none"
    /\ argc = 0
    /\ rtn = 0
    /\ exit_code = 0

Init == source \in Sources /\ InitScanner /\ InitAlone

InitLive == source \in LiveSources /\ InitScanner /\ InitAlone

Next ==
    \/ ScanToken
    \/ Return
    \/ CommentStep
    \/ CommentEnd
    \/ StringStep
    \/ StringEnd
    \/ NumberTest
    \/ NumberBody
    \/ NumberEnd

Spec == Init /\ [][Next]_vars

\* the scanner is one synchronous thread: a step that can be taken is taken
FairSpec == InitLive /\ [][Next]_vars /\ WF_vars(Next)

-----------------------------------------------------------------------------
(* Callers of the Scanner: Lox.run and main() *)

\* the lines typed at the prompt of run_from_prompt, other than "exit"
MaxLines == 1

\* longest line typed at the prompt
MaxLineLen == 3

\* listeners a client of lox_error subscribes
MaxListeners == 2

\* longest source a client scans
MaxClientLen == 3

CallerAlphabet == {"1", "#", "/", QUOTE}

PromptLines == SeqsUpTo(CallerAlphabet, MaxLineLen)

ClientSources == SeqsUpTo(CallerAlphabet, MaxClientLen)

\* a field #tokens that the instances share
SharedTokens == tokens

\* the field initializer #tokens = []
FreshTokens == <<>>

\* what the Scanner that has returned leaves to its caller, and the count of
\* rejected lox_error promises so far
Returned ==
    [source |-> source, tokens |-> tokens, start |-> start,
     current |-> current, line |-> line, errors |-> errors,
     rejected |-> rejected]

\* Lox.run: new Scanner(src), then the call of scan_tokens
Construct(src) ==
    /\ source' = src
    /\ tokens' = FreshTokens
    /\ start' = 0
    /\ current' = 0
    /\ line' = 1
    /\ errors' = <<>>
    /\ spans' = <<>>
    /\ state' = state_before_sign
    /\ path' = <<>>
    /\ pc' = "scan"
    /\ runs' = IF pc = "done" THEN Append(runs, Returned) ELSE runs

\* main: the dispatch on argv.length
Main ==
    /\ dpc = "main"
    /\ dpc' = IF argc = 2 THEN "prompt" ELSE IF argc = 3 THEN "file" ELSE "exited"
    /\ exit_code' = 0
    /\ UNCHANGED <<source, tokens, start, current, line, errors, pc, state, path,
                   spans, rejected, rtn, listeners, runs, argc>>

\* run_from_prompt: a line other than "exit" is run; run is not awaited, and
\* its body returns when scan_tokens has returned and the tokens are printed
PromptRun ==
    /\ dpc = "prompt"
    /\ pc = "idle" \/ (pc = "done" /\ Len(runs) + 1 < MaxLines)
    /\ \E ln \in PromptLines : Construct(ln)
    /\ UNCHANGED <<rejected, rtn, listeners, dpc, argc, exit_code>>

\* run_from_prompt: the line "exit" ends the loop
PromptExit ==
    /\ dpc = "prompt"
    /\ pc \in {"idle", "done"}
    /\ dpc' = "subscribe"
    /\ UNCHANGED <<source, tokens, start, current, line, errors, pc, state, path,
                   spans, rejected, rtn, listeners, runs, argc, exit_code>>

\* run_from_file: readFile without an encoding resolves to a Buffer (or
\* rejects); new Scanner(buffer) throws, a Buffer being no array and having no
\* split; main catches and calls process.exit(1)
RunFromFile ==
    /\ dpc = "file"
    /\ dpc' = "exited"
    /\ exit_code' = 1
    /\ UNCHANGED <<source, tokens, start, current, line, errors, pc, state, path,
                   spans, rejected, rtn, listeners, runs, argc>>

\* main: lox_error.on("lox-error", ...), after the run
Subscribe ==
    /\ dpc = "subscribe"
    /\ listeners' = Append(listeners, "main")
    /\ dpc' = "exit"
    /\ UNCHANGED <<source, tokens, start, current, line, errors, pc, state, path,
                   spans, rejected, rtn, runs, argc, exit_code>>

\* main: process.exit(rtn)
Exit ==
    /\ dpc = "exit"
    /\ dpc' = "exited"
    /\ exit_code' = rtn
    /\ UNCHANGED <<source, tokens, start, current, line, errors, pc, state, path,
                   spans, rejected, rtn, listeners, runs, argc>>

\* the process before main(process.argv): no Scanner yet, no listener
InitDriver ==
    /\ source = <<>>
    /\ tokens = <<>>
    /\ start = 0
    /\ current = 0
    /\ line = 1
    /\ errors = <<>>
    /\ pc = "idle"
    /\ state = state_before_sign
    /\ path = <<>>
    /\ spans = <<>>
    /\ listeners = <<>>
    /\ rejected = 0
    /\ runs = <<>>
    /\ dpc = "main"
    /\ argc \in {2, 3, 4}
    /\ rtn = 0
    /\ exit_code = 0

DriverNext ==
    \/ Next
    \/ Main
    \/ PromptRun
    \/ PromptExit
    \/ RunFromFile
    \/ Subscribe
    \/ Exit

DriverSpec == InitDriver /\ [][DriverNext]_vars

(* A client that scans a source with a fresh Scanner, subscribes listeners  *)
(* with lox_error.on, and scans the same source with a second Scanner       *)

\* what a listener does when called: it returns, or it throws
ListenerKinds == {"ok", "throws"}

\* lox_error.on("lox-error", listener), between two scans
ClientSubscribe ==
    /\ dpc = "client"
    /\ pc \in {"idle", "done"}
    /\ Len(listeners) < MaxListeners
    /\ \E k \in ListenerKinds : listeners' = Append(listeners, k)
    /\ UNCHANGED <<source, tokens, start, current, line, errors, pc, state, path,
                   spans, rejected, rtn, runs, dpc, argc, exit_code>>

\* new Scanner(src).scan_tokens(): the first scan, or the second of the same source
ClientRun ==
    /\ dpc = "client"
    /\ \E src \in ClientSources :
          /\ pc = "idle" \/ (pc = "done" /\ runs = <<>> /\ src = source)
          /\ Construct(src)
    /\ UNCHANGED <<rejected, rtn, listeners, dpc, argc, exit_code>>

InitClient ==
    /\ source = <<>>
    /\ tokens = <<>>
    /\ start = 0
    /\ current = 0
    /\ line = 1
    /\ errors = <<>>
    /\ pc = "idle"
    /\ state = state_before_sign
    /\ path = <<>>
    /\ spans = <<>>
    /\ listeners = <<>>
    /\ rejected = 0
    /\ runs = <<>>
    /\ dpc = "client"
    /\ argc = 0
    /\ rtn = 0
    /\ exit_code = 0

ClientNext ==
    \/ Next
    \/ ClientSubscribe
    \/ ClientRun

ClientSpec == InitClient /\ [][ClientNext]_vars

-----------------------------------------------------------------------------
(* Claims *)

\* C1: from a fresh Scanner, the scan of every finite source terminates:
\* scan_tokens eventually returns the token sequence.
C1_Terminates == <>(pc = "done")

\* C2: in every reachable state 0 <= start <= current <= length(source), so
\* the scanner is exhausted exactly when current = length(source).
C2_CursorInvariant ==
    /\ 0 <= start
    /\ start <= current
    /\ current <= Len(source)
    /\ (is_at_end <=> current = Len(source))

\* C3: a string literal whose opening quote is followed by no closing quote
\* before the end of input is reported once as "unterminated string." with
\* the current line, and no token is emitted for it.
C3_UnterminatedReported ==
    [][(pc = "string" /\ pc' = "scan" /\ current >= Len(source))
        => (/\ errors' = Append(errors, [line |-> line, message |-> MsgUnterminated])
            /\ tokens' = tokens)]_vars

C5_FailureReported ==
    [](pc = "number" /\ state = state_failure
        => <>(/\ pc = "scan"
              /\ Len(errors) > 0
              /\ errors[Len(errors)] = [line |-> line, message |-> MsgInvalidNumber]))


\* the Reserved-Word Table entry and the identifier runs C6 is read on
C6_IdentifierSources == {<<"x">>, <<"_">>, <<"e">>, <<"x", "1">>, <<"_", "x">>}

\* C6: a run that begins with a letter or underscore and continues with
\* letters, digits or underscores yields one token, of the keyword's kind when
\* the lexeme is a reserved word and IDENTIFIER otherwise, and no report; "if x"
\* yields an IF token and an IDENTIFIER token with lexeme "x".
C6_IdentifiersAndKeywords ==
    pc = "done" =>
        /\ source = Ex_keyword =>
              /\ tokens = << [token_type |-> T_IF, lexeme |-> <<"i", "f">>,
                              literal |-> NoLiteral, line |-> 1],
                             [token_type |-> IDENTIFIER, lexeme |-> <<"x">>,
                              literal |-> NoLiteral, line |-> 1] >>
              /\ errors = <<>>
        /\ source \in C6_IdentifierSources =>
              /\ tokens = << [token_type |-> IDENTIFIER, lexeme |-> source,
                              literal |-> NoLiteral, line |-> 1] >>
              /\ errors = <<>>

\* the sources of C7 with the kind each is to yield
C7_Table ==
    { << <<"+">>, PLUS >>, << <<"-">>, MINUS >>, << <<"*">>, STAR >>,
      << <<"(">>, LEFT_PAREN >>, << <<")">>, RIGHT_PAREN >>,
      << <<"{">>, LEFT_BRACE >>, << <<"}">>, RIGHT_BRACE >>,
      << <<",">>, COMMA >>, << <<".">>, DOT >>, << <<";">>, SEMICOLON >>,
      << <<"!", "=">>, BANG_EQUAL >>, << <<"=", "=">>, EQUAL_EQUAL >>,
      << <<"<", "=">>, LESS_EQUAL >>, << <<">", "=">>, GREATER_EQUAL >>,
      << <<"!">>, BANG >>, << <<"=">>, EQUAL >>,
      << <<"<">>, LESS >>, << <<">">>, GREATER >> }

\* C7: a source that is one of + - * ( ) { } , . ; yields one token of the
\* matching kind with the character as lexeme; "!=", "==", "<=", ">=" yield one
\* token of the two-character kind with the two-character lexeme; "!", "=",
\* "<", ">" yield one token of the one-character kind; nothing is reported.
C7_OperatorDispatch ==
    \A p \in C7_Table :
        (pc = "done" /\ source = p[1]) =>
            /\ tokens = << [token_type |-> p[2], lexeme |-> p[1],
                            literal |-> NoLiteral, line |-> 1] >>
            /\ errors = <<>>
            /\ current = Len(source)

\* the scan of "<=" has returned its one token
C7_Witness ==
    /\ pc = "done"
    /\ source = <<"<", "=">>
    /\ Len(tokens) = 1
    /\ tokens[1].token_type = LESS_EQUAL


\* the number of newline characters of s
RECURSIVE Newlines(_)
Newlines(s) ==
    IF s = <<>> THEN 0
    ELSE (IF s[1] = NEWLINE THEN 1 ELSE 0) + Newlines(Tail(s))

\* C8: a line comment, "//" up to but not including the next newline or up to
\* the end of input, yields no token and no report; the newline that ends it
\* is then consumed as an ordinary newline, which adds exactly one to line, and
\* the text after it is scanned as usual: "// comment\n123" yields one token,
\* a NUMBER with lexeme "123" on line 2.
C8_LineComment ==
    /\ [](pc = "comment" =>
            /\ source[start + 1] = "/" /\ source[start + 2] = "/"
            /\ \A i \in (start + 3)..current : source[i] # NEWLINE)
    /\ [][/\ (pc = "comment" \/ pc' = "comment") =>
                /\ tokens' = tokens /\ errors' = errors /\ line' = line
                /\ start' = IF pc = "comment" THEN start ELSE current
          /\ (pc = "comment" /\ pc' = "scan") =>
                /\ current' = current
                /\ current = Len(source) \/ source[current + 1] = NEWLINE
          /\ (pc = "scan" /\ current < Len(source) /\ source[current + 1] = NEWLINE) =>
                /\ line' = line + 1 /\ current' = current + 1 /\ pc' = "scan"
                /\ tokens' = tokens /\ errors' = errors]_vars
    /\ []((pc = "done" /\ source = Ex_comment) =>
            /\ tokens = << [token_type |-> NUMBER, lexeme |-> <<"1", "2", "3">>,
                            literal |-> NumberLiteral(123, 0), line |-> 2] >>
            /\ errors = <<>>
            /\ line = 2)

\* the scan of "// comment\n123" has returned
C8_Witness ==
    /\ pc = "done"
    /\ source = Ex_comment
    /\ Len(tokens) = 1
    /\ line = 2

\* C9: a terminated string literal that starts on line L and holds k newlines
\* yields one STRING token whose literal is the characters strictly between
\* the quotes, whose lexeme includes both quotes and whose line is L + k; the
\* line counter is L + k afterwards.
C9_TerminatedString ==
    [][(pc = "string" /\ pc' = "scan" /\ current < Len(source)) =>
            LET L == 1 + Newlines(SubSeq(source, 1, start))
                between == SubSeq(source, start + 2, current)
                k == Newlines(between)
            IN  /\ source[start + 1] = QUOTE
                /\ source[current + 1] = QUOTE
                /\ \A i \in 1..Len(between) : between[i] # QUOTE
                /\ tokens' = Append(tokens,
                                    [token_type |-> T_STRING,
                                     lexeme |-> <<QUOTE>> \o between \o <<QUOTE>>,
                                     literal |-> StringLiteral(between),
                                     line |-> L + k])
                /\ line' = L + k
                /\ current' = current + 1
                /\ errors' = errors]_vars

\* a string literal that starts on line 2 and holds a newline has been scanned
C9_Witness ==
    \E i \in 1..Len(tokens) :
        /\ tokens[i].token_type = T_STRING
        /\ tokens[i].lexeme = <<QUOTE, NEWLINE, QUOTE>>
        /\ tokens[i].literal = StringLiteral(<<NEWLINE>>)
        /\ tokens[i].line = 3
        /\ line = 3


\* s has the shape digits '.' digits ('e'|'E') optional-sign digits
C10_Shape(s) ==
    LET i == DigitRun(s, 1)
        f == DigitRun(s, i + 2)
        p == i + 1 + f
        sign == IF p + 2 <= Len(s) /\ s[p + 2] \in {"+", "-"} THEN 1 ELSE 0
        x == DigitRun(s, p + 2 + sign)
    IN  /\ i >= 1
        /\ i + 1 <= Len(s) /\ s[i + 1] = "."
        /\ f >= 1
        /\ p + 1 <= Len(s) /\ s[p + 1] \in {"e", "E"}
        /\ x >= 1
        /\ p + 1 + sign + x = Len(s)

\* the scan of a source of that shape returns one NUMBER token whose lexeme is
\* the whole source, with no report; "1.5e-3" has the value 0.0015 = 15e-4
C10_OneNumberToken ==
    /\ Len(tokens) = 1
    /\ tokens[1].token_type = NUMBER
    /\ tokens[1].lexeme = source
    /\ tokens[1].line = 1
    /\ tokens[1].literal.kind = "number"
    /\ source = Ex_number => tokens[1].literal = NumberLiteral(15, 0 - 4)
    /\ errors = <<>>
    /\ current = Len(source)

\* C10 as claimed: a source of the shape digits '.' digits ('e'|'E')
\* optional-sign digits is consumed by one pass of the number state machine
\* through BEFORE_SIGN -> AFTER_DECIMAL -> BEFORE_EXP_SIGN -> IN_EXP -> END and
\* yields one NUMBER token whose lexeme is the whole source, with no report;
\* the value of "1.5e-3" is 0.0015.
C10_NumberPathClaimed ==
    (pc = "done" /\ C10_Shape(source)) =>
        /\ C10_OneNumberToken
        /\ path = <<state_before_sign, state_after_decimal,
                    state_before_exp_sign, state_in_exp, state_at_end>>

\* C10 as amended: the pass goes BEFORE_SIGN -> AFTER_DECIMAL ->
\* BEFORE_EXP_SIGN -> IN_EXP -> END when the integer part is one digit, and
\* BEFORE_SIGN -> BEFORE_DECIMAL -> AFTER_DECIMAL -> BEFORE_EXP_SIGN -> IN_EXP
\* -> END when it has two digits or more; the rest as claimed.
C10_NumberPath ==
    (pc = "done" /\ C10_Shape(source)) =>
        /\ C10_OneNumberToken
        /\ path = (IF DigitRun(source, 1) = 1
                   THEN <<state_before_sign>>
                   ELSE <<state_before_sign, state_before_decimal>>)
                  \o <<state_after_decimal, state_before_exp_sign,
                       state_in_exp, state_at_end>>

\* the scan of "1.5e-3" has returned its NUMBER token
C10_Witness ==
    /\ pc = "done"
    /\ source = Ex_number
    /\ Len(tokens) = 1
    /\ tokens[1].literal = NumberLiteral(15, 0 - 4)


\* the letters and the underscore, which start an identifier
C11_Alpha ==
    {"a", "b", "c", "d", "e", "f", "g", "h", "i", "j", "k", "l", "m", "n", "o",
     "p", "q", "r", "s", "t", "u", "v", "w", "x", "y", "z", "A", "B", "C", "D",
     "E", "F", "G", "H", "I", "J", "K", "L", "M", "N", "O", "P", "Q", "R", "S",
     "T", "U", "V", "W", "X", "Y", "Z", "_"}

\* the characters the single-character dispatch names
C11_Dispatch ==
    {"(", ")", "{", "}", ",", ".", "-", "+", ";", "*", "!", "=", "<", ">", "/",
     "\r", " ", "\t", "\n", "\"", "0", "1", "2", "3", "4", "5", "6", "7", "8",
     "9"} \cup C11_Alpha

\* C11: a character outside the dispatch set (e.g. '#') is reported once as
\* "Unexpected character '<ch>" with the current line, yields no token,
\* consumes exactly that character, and the scan goes on with the next one.
C11_UnexpectedCharacter ==
    [][(pc = "scan" /\ current < Len(source)
            /\ source[current + 1] \notin C11_Dispatch) =>
        /\ errors' = Append(errors,
                            [line |-> line,
                             message |-> <<"Unexpected character '",
                                           source[current + 1]>>])
        /\ tokens' = tokens
        /\ current' = current + 1
        /\ line' = line
        /\ pc' = "scan"]_vars

\* "#+" has been scanned: one report for '#', then the PLUS token
C11_Witness ==
    /\ pc = "done"
    /\ source = <<"#", "+">>
    /\ errors = <<[line |-> 1, message |-> <<"Unexpected character '", "#">>]>>
    /\ Len(tokens) = 1
    /\ tokens[1].token_type = PLUS


\* a scan of the process has issued a report
C12_Reported ==
    errors # <<>> \/ \E i \in 1..Len(runs) : runs[i].errors # <<>>

\* C12: when a scan of the supplied source issues a report the process exits
\* with a non-zero status, and with no report the status is zero.
C12_ExitStatus ==
    (dpc = "exited" /\ pc = "done") => (exit_code # 0 <=> C12_Reported)


\* C13: the lexeme of every token emitted is source[start:current) for the
\* start and current of the moment of emission, with
\* start < current <= length(source).
C13_LexemeIsSlice ==
    [][Len(tokens') = Len(tokens) + 1 =>
        /\ start' < current'
        /\ current' <= Len(source)
        /\ tokens'[Len(tokens')].lexeme = SubSeq(source, start' + 1, current')]_vars


\* C14: two fresh Scanner instances given the same source return token
\* sequences of the same length, equal element by element in kind, lexeme,
\* literal and line, and issue the same sequence of reports.
C14_Deterministic ==
    (pc = "done" /\ runs # <<>>) =>
        /\ runs[1].source = source
        /\ Len(tokens) = Len(runs[1].tokens)
        /\ \A i \in 1..Len(tokens) :
              /\ tokens[i].token_type = runs[1].tokens[i].token_type
              /\ tokens[i].lexeme = runs[1].tokens[i].lexeme
              /\ tokens[i].literal = runs[1].tokens[i].literal
              /\ tokens[i].line = runs[1].tokens[i].line
        /\ errors = runs[1].errors

\* the second scan of a source has returned, with a token and a report
C14_Witness ==
    /\ pc = "done"
    /\ runs # <<>>
    /\ tokens # <<>>
    /\ errors # <<>>


\* C15 as claimed: every step of the number loop that consumes a character
\* and leaves the cursor at end of input sets state to END, a sign consumed
\* in BEFORE_SIGN included, and the loop then ends with a NUMBER token.
C15_ShortCircuitClaimed ==
    [][/\ (pc = "number_body" /\ current' = current + 1 /\ AtEnd(current'))
            => state' = state_at_end
       /\ (pc = "number" /\ pc' # "number_body" /\ AtEnd(current)
            /\ current > start + 1)
            => /\ Len(tokens') = Len(tokens) + 1
               /\ tokens'[Len(tokens')].token_type = NUMBER
               /\ errors' = errors]_vars

\* a '+' or '-' is peeked in BEFORE_SIGN
C15_SignInBeforeSign(st, cur) ==
    st = state_before_sign /\ (Peek(cur) = "+" \/ Peek(cur) = "-")

\* C15: every step of the number loop that consumes a character and leaves
\* the cursor at end of input sets state to END, and the loop then ends with a
\* NUMBER token; except a sign consumed in BEFORE_SIGN, which leaves
\* BEFORE_DECIMAL, and the loop then ends with "invalid number format".
C15_ShortCircuit ==
    [][/\ (pc = "number_body" /\ current' = current + 1 /\ AtEnd(current'))
            => IF C15_SignInBeforeSign(state, current)
               THEN state' = state_before_decimal
               ELSE state' = state_at_end
       /\ (pc = "number" /\ pc' # "number_body" /\ AtEnd(current)
            /\ current > start + 1)
            => IF state = state_at_end
               THEN /\ Len(tokens') = Len(tokens) + 1
                    /\ tokens'[Len(tokens')].token_type = NUMBER
                    /\ errors' = errors
               ELSE /\ current = start + 2
                    /\ source[current] \in {"+", "-"}
                    /\ state = state_before_decimal
                    /\ tokens' = tokens
                    /\ errors' = lox_error(errors, line, MsgInvalidNumber)]_vars

\* a sign consumed in BEFORE_EXP_SIGN as the last character forced END, and
\* the NUMBER token was added
C15_Witness ==
    /\ pc = "scan"
    /\ AtEnd(current)
    /\ state = state_at_end
    /\ path # <<>>
    /\ Len(path) >= 2
    /\ path[Len(path) - 1] = state_in_exp
    /\ source[current] \in {"+", "-"}
    /\ tokens # <<>>
    /\ tokens[Len(tokens)].token_type = NUMBER
    /\ tokens[Len(tokens)].lexeme = Slice(start, current)


\* C16: a report never aborts the scan, and the tokens returned and the final
\* cursor (start, current, line) for a source are the same whatever listeners
\* are subscribed to lox_error and whether they return or throw.
C16_NoInterference ==
    /\ pc # "aborted"
    /\ (pc = "done" /\ runs # <<>>) =>
          /\ tokens = runs[1].tokens
          /\ start = runs[1].start
          /\ current = runs[1].current
          /\ line = runs[1].line

\* a source with a report was scanned while no listener threw, and again
\* with two listeners, one of which threw when the report was emitted
C16_Witness ==
    /\ pc = "done"
    /\ runs # <<>>
    /\ runs[1].rejected = 0
    /\ runs[1].errors # <<>>
    /\ Len(listeners) > 1
    /\ \E i \in 1..Len(listeners) : listeners[i] = "throws"
    /\ rejected > 0
    /\ tokens # <<>>


\* a lone '/' is the next character: a '/' with no second '/' right after it
C17_LoneSlashNext ==
    /\ pc = "scan"
    /\ ~is_at_end
    /\ source[current + 1] = "/"
    /\ (current + 2 <= Len(source) => source[current + 2] # "/")

\* a lone '/' is the character the last dispatch consumed
C17_LoneSlashDone ==
    /\ pc = "scan"
    /\ current >= 1
    /\ start = current - 1
    /\ source[current] = "/"

\* C17: a '/' not followed by a second '/' consumes that one character and
\* changes nothing else (no token, no report, same line), and the character
\* after it is scanned as the start of the next token.
C17_LoneSlash ==
    [][/\ C17_LoneSlashNext =>
            /\ current' = current + 1
            /\ tokens' = tokens
            /\ errors' = errors
            /\ line' = line
            /\ pc' = "scan"
       /\ (C17_LoneSlashDone /\ ~is_at_end) =>
            /\ start' = current
            /\ current' > current
            /\ source[current + 1] \in SingleChars =>
                  /\ Len(tokens') = Len(tokens) + 1
                  /\ tokens'[Len(tokens')].lexeme = <<source[current + 1]>>]_vars

\* a lone '/' was skipped and the character after it became a token
C17_Witness ==
    /\ pc = "done"
    /\ Len(source) = 2
    /\ source[1] = "/"
    /\ source[2] \in SingleChars
    /\ errors = <<>>
    /\ Len(tokens) = 1
    /\ tokens[1].lexeme = <<source[2]>>


\* C18: line never decreases; each time scan_tokens is at a token boundary,
\* line is 1 plus the number of newlines in the consumed prefix of the source;
\* and the lines recorded in the tokens never decrease along the sequence.
C18_LineCounter ==
    /\ [][line' >= line]_vars
    /\ [](pc = "scan" =>
            line = 1 + Newlines(SubSeq(source, 1, Min(current, Len(source)))))
    /\ [](\A i \in 1..Len(tokens) : \A j \in i..Len(tokens) :
            tokens[i].line <= tokens[j].line)

\* a token of line 1 is followed by a string that holds a newline, recorded
\* on line 2
C18_Witness ==
    /\ pc = "done"
    /\ Len(tokens) >= 2
    /\ tokens[1].line = 1
    /\ tokens[2].line = 2
    /\ tokens[2].token_type = T_STRING
    /\ tokens[2].lexeme = <<QUOTE, NEWLINE, QUOTE>>
    /\ line = 2


\* C19: for every source that is a non-empty run of decimal digits, a single
\* digit included, scan_tokens returns exactly one NUMBER token whose lexeme
\* is the whole source, and nothing is reported.
C19_DigitsOnly ==
    (/\ pc = "done"
     /\ source # <<>>
     /\ \A i \in 1..Len(source) : is_digit(source[i]))
        => /\ Len(tokens) = 1
           /\ tokens[1].token_type = NUMBER
           /\ tokens[1].lexeme = source
           /\ errors = <<>>


\* C20: every completed dispatch of #scan_token leaves current greater than
\* the start it began with; tokens are added in source order with spans that
\* do not overlap (each token's start is at or after the previous token's
\* end); so there are never more tokens than characters in the source.
C20_Progress ==
    /\ [][pc' = "scan" => current' > start']_vars
    /\ [](/\ Len(spans) = Len(tokens)
          /\ \A i \in 1..Len(spans) : spans[i][1] < spans[i][2]
          /\ \A i \in 1..(Len(spans) - 1) : spans[i + 1][1] >= spans[i][2]
          /\ Len(tokens) <= Len(source))

\* three tokens, one after the other, from a source of four characters
C20_Witness ==
    /\ pc = "done"
    /\ Len(source) = 4
    /\ Len(tokens) = 3
    /\ spans[1][2] <= spans[2][1]
    /\ spans[2][2] < spans[3][1]

=============================================================================
